---------------------------- MODULE Spec2Model ----------------------------
(***************************************************************************)
(* Point-management engine of the rgb-curve editor: the useCurvePoints     *)
(* hook (src/src/types/index.ts, lines 423-629) and the point utilities    *)
(* it calls (src/src/utils/constants.ts, lines 113-154), and the curve     *)
(* interpolators and lookup-table generators (constants.ts, lines 156-328).*)
(*                                                                         *)
(* The hook keeps the ChannelSet in a React state cell (internalPoints).   *)
(* Its callbacks close over `points`, the ChannelSet computed by the last  *)
(* render; a call made before the next render still reads that snapshot.   *)
(* Render is therefore a step of its own.                                  *)
(*                                                                         *)
(* Also modelled: applyLUT (constants.ts, lines 333-350), the pointer      *)
(* handlers of the useCanvasInteraction hook (types/index.ts, lines        *)
(* 209-387), the tab handler of ChannelTabs (unnamed/part_002, lines       *)
(* 83-90) and the channel state and ref accessors of the RGBCurve          *)
(* component (src/src/components/RGBCurve.tsx).  The canvas handlers close *)
(* over the active point index and the channel of the last render, while   *)
(* isDragging is a ref that they read and write at once.                   *)
(***************************************************************************)
EXTENDS Integers, Sequences, FiniteSets, TLC

(* ------------------------- program constants -------------------------- *)

MIN_POINT_DISTANCE == 5

Channels == {"master", "red", "green", "blue"}

(* ------------------------------ bounds -------------------------------- *)

\* Spec explores the runs of at most MaxCalls calls after construction.
MaxCalls == 3

\* SpecEdit explores the runs of at most MaxEditCalls calls.
MaxEditCalls == 5

\* SpecCanvas explores the runs of at most MaxCanvasCalls calls of the hook.
MaxCanvasCalls == 2

(* ------------------------------ inputs -------------------------------- *)

Pt(px, py) == [x |-> px, y |-> py]

\* Runs with coordinates inside [0,255] only (SpecEdit): the channels the
\* calls address, and the points they pass.  The x values are both ends, a
\* value closer than MIN_POINT_DISTANCE to an end, one exactly that far, and a
\* middle value.
EditChannels == {"red", "green"}
InX == {0, 4, 5, 128, 255}
InY == {255}
InPoints == {Pt(px, py) : px \in InX, py \in InY}

\* Runs with any integer coordinates (Spec).  addPoint, removePoint and
\* updatePoint address DragChannels; the resets and setChannelPoints address
\* SetChannels.
DragChannels == {"red"}
SetChannels == {"red", "green"}
AddInputs ==
  { Pt(128, 200), Pt(130, 50), Pt(133, 260), Pt(300, -7), Pt(-8, 50) }
DragInputs == { Pt(-8, -7), Pt(130, 260), Pt(300, 255) }

\* Point lists a caller supplies to setChannelPoints: empty, a single point,
\* unsorted, and crowded with two points sharing an x.
SuppliedLists ==
  { << >>,
    << Pt(128, 50) >>,
    << Pt(255, 255), Pt(128, 50), Pt(0, 0) >>,
    << Pt(128, 200), Pt(128, 50), Pt(126, 0) >> }

\* Partial ChannelSets a caller supplies to setAllPoints and as
\* the controlled `points` prop: a function from the channels present.
SuppliedPartials ==
  { [c \in {} |-> << >>],
    [c \in {"red"} |-> << Pt(128, 50) >>],
    [c \in {"red", "blue"} |-> << Pt(255, 255), Pt(128, 50), Pt(0, 0) >>] }

\* The defaultPoints a caller constructs the session with.
DefaultPartial ==
  [c \in {"red", "blue"} |-> << Pt(255, 255), Pt(128, 50), Pt(0, 0) >>]

\* An optional prop: given is FALSE when the prop is undefined.
NoProp == [given |-> FALSE, value |-> [c \in {} |-> << >>]]
Prop(partial) == [given |-> TRUE, value |-> partial]

(* ------------------------------ state --------------------------------- *)

VARIABLES
  defaultPoints,     \* the `defaultPoints` prop (options.defaultPoints)
  controlledPoints,  \* the `points` prop (options.controlledPoints)
  interpolation,     \* the `interpolation` prop (options.interpolation)
  internalPoints,    \* the useState cell
  points,            \* the ChannelSet the callbacks of the last render read
  lut,               \* the LUTSet memoised by the last render
  nCalls,            \* the number of calls made so far
  lastCall,          \* the most recent call and its arguments
  notified,          \* what that call passed to the change listener
  curve,             \* a point list handed to generateChannelLUT
  kind,              \* the interpolation handed to generateChannelLUT
  table,             \* the Uint8Array generateChannelLUT is filling
  sample,            \* the last call of an interpolator: its x and result
  lutData,           \* a LUTSet handed to applyLUT
  pixel,             \* the last call of applyLUT: its arguments and result
  disabled,          \* the `disabled` prop
  controlledChannel, \* the `activeChannel` prop
  internalChannel,   \* RGBCurve's useState cell of the channel
  activePointIndex,  \* useCanvasInteraction's useState cell
  hoveredPointIndex, \* useCanvasInteraction's useState cell
  isDragging,        \* useCanvasInteraction's ref isDragging.current
  rendered,          \* what the canvas handlers of the last render closed over
  gesture            \* the last pointer event and the callback it invoked

sessionVars ==
  <<defaultPoints, controlledPoints, interpolation, internalPoints, points,
    lut, nCalls, lastCall, notified>>

lutVars == <<curve, kind, table, sample>>

pixelVars == <<lutData, pixel>>

canvasVars ==
  <<disabled, controlledChannel, internalChannel, activePointIndex,
    hoveredPointIndex, isDragging, rendered, gesture>>

vars ==
  <<defaultPoints, controlledPoints, interpolation, internalPoints, points,
    lut, nCalls, lastCall, notified, curve, kind, table, sample, lutData,
    pixel, disabled, controlledChannel, internalChannel, activePointIndex,
    hoveredPointIndex, isDragging, rendered, gesture>>

(* --------------------------- pure helpers ----------------------------- *)

Abs(v) == IF v < 0 THEN -v ELSE v

MathMin(a, b) == IF a < b THEN a ELSE b

MathMax(a, b) == IF a > b THEN a ELSE b

\* clamp without its upper bound
clamp_minOnly(value, min, max) == MathMax(value, min)

clamp(value, min, max) == MathMin(MathMax(value, min), max)

getDefaultPoints == << Pt(0, 0), Pt(255, 255) >>

getDefaultChannelPoints == [c \in Channels |-> getDefaultPoints]

\* Array.prototype.sort with (a, b) => a.x - b.x on a copy: stable, ascending x.
\* InsertSorted placing p before the elements of the same x
RECURSIVE InsertSorted_beforeEqual(_, _)
InsertSorted_beforeEqual(sorted, p) ==
  IF sorted = << >> THEN << p >>
  ELSE IF sorted[Len(sorted)].x < p.x THEN Append(sorted, p)
  ELSE Append(InsertSorted_beforeEqual(SubSeq(sorted, 1, Len(sorted) - 1), p),
              sorted[Len(sorted)])

\* InsertSorted places p behind every element whose x is not larger.
RECURSIVE InsertSorted(_, _)
InsertSorted(sorted, p) ==
  IF sorted = << >> THEN << p >>
  ELSE IF sorted[Len(sorted)].x <= p.x THEN Append(sorted, p)
  ELSE Append(InsertSorted(SubSeq(sorted, 1, Len(sorted) - 1), p),
              sorted[Len(sorted)])

\* sortPoints returning the list as given
sortPoints_asGiven(pts) == pts

RECURSIVE sortPoints(_)
sortPoints(pts) ==
  IF pts = << >> THEN << >>
  ELSE InsertSorted(sortPoints(SubSeq(pts, 1, Len(pts) - 1)), pts[Len(pts)])

\* The array handed to sortPoints, after the call: the sort is done on the
\* copy [...points], the array itself keeps its order.
argumentAfterSort(pts) == pts

\* partial.channel || defaults.channel  (an empty array is truthy)
OrDefault(partial, c) ==
  IF c \in DOMAIN partial THEN partial[c] ELSE getDefaultPoints

\* useMemo initialPoints
initialPoints(defaults) ==
  IF defaults.given
  THEN [c \in Channels |-> OrDefault(defaults.value, c)]
  ELSE getDefaultChannelPoints

\* useMemo points
pointsMemo(controlled, internal) ==
  IF controlled.given
  THEN [c \in Channels |-> OrDefault(controlled.value, c)]
  ELSE internal

(* --------------------------- call records ----------------------------- *)

NoPoint == Pt(0, 0)

\* A call with its arguments; `after` holds the caller's arrays as they are
\* once the call has returned.
Call(op, channel, index, point, list, partial) ==
  [op |-> op, channel |-> channel, index |-> index, point |-> point,
   list |-> list, partial |-> partial,
   after |-> [list |-> argumentAfterSort(list),
              partial |-> [c \in DOMAIN partial |->
                             argumentAfterSort(partial[c])]]]

NoPartial == [c \in {} |-> << >>]

\* The LUTSet generateLUT(channelPoints, interp), held as the arguments of the
\* call; its tables are the values of generateChannelLUT further down.
LutOf(channelPoints, interp) ==
  [points |-> channelPoints, interpolation |-> interp]

\* What the change listener received during a call.
NotNotified ==
  [count |-> 0, points |-> getDefaultChannelPoints,
   lut |-> LutOf(getDefaultChannelPoints, "monotone")]

(* ---------------------------- operations ------------------------------ *)

\* updatePoints handing the listener the LUTSet of the last render
updatePoints_renderedLut(newPoints) ==
  /\ internalPoints' =
       IF ~controlledPoints.given THEN newPoints ELSE internalPoints
  /\ notified' = [count |-> 1, points |-> newPoints,
                   lut |-> LutOf(points, interpolation)]

\* updatePoints storing the new ChannelSet in controlled mode too
updatePoints_alwaysStore(newPoints) ==
  /\ internalPoints' = newPoints
  /\ notified' = [count |-> 1, points |-> newPoints,
                   lut |-> LutOf(newPoints, interpolation)]

\* updatePoints: store when uncontrolled, then notify the listener once.
updatePoints(newPoints) ==
  /\ internalPoints' =
       IF ~controlledPoints.given THEN newPoints ELSE internalPoints
  /\ notified' = [count |-> 1, points |-> newPoints,
                   lut |-> LutOf(newPoints, interpolation)]

\* A call that returns before updatePoints.
Rejected ==
  /\ UNCHANGED internalPoints
  /\ notified' = NotNotified

\* The props do not change during a call, and the callbacks' snapshot is
\* replaced only by a render.
CallFrame(call) ==
  /\ lastCall' = call
  /\ nCalls' = nCalls + 1
  /\ UNCHANGED <<defaultPoints, controlledPoints, interpolation, points, lut>>

\* the loop rejecting only a point with the x of an existing one
tooClose_sameXOnly(sorted, point) ==
  \E i \in 1..Len(sorted) : sorted[i].x = point.x

\* the loop comparing with <= instead of <
tooClose_inclusive(sorted, point) ==
  \E i \in 1..Len(sorted) : Abs(sorted[i].x - point.x) <= MIN_POINT_DISTANCE

\* addPoint's loop over the sorted points: some point is too close in x.
tooClose(sorted, point) ==
  \E i \in 1..Len(sorted) : Abs(sorted[i].x - point.x) < MIN_POINT_DISTANCE

AddPoint(channel, point) ==
  LET channelPoints == points[channel]
      sorted == sortPoints(channelPoints)
  IN /\ CallFrame(Call("addPoint", channel, -1, point, << >>, NoPartial))
     /\ IF tooClose(sorted, point)
        THEN Rejected
        ELSE updatePoints([points EXCEPT
               ![channel] = sortPoints(Append(channelPoints, point))])

\* the filter taking index as counted from 1
filterIndex_fromOne(sorted, index) ==
  IF index < 1 \/ index > Len(sorted) THEN sorted
  ELSE [j \in 1..(Len(sorted) - 1) |->
          IF j < index THEN sorted[j] ELSE sorted[j + 1]]

\* sorted.filter((_, i) => i !== index), index counted from 0
filterIndex(sorted, index) ==
  IF index < 0 \/ index >= Len(sorted) THEN sorted
  ELSE [j \in 1..(Len(sorted) - 1) |->
          IF j <= index THEN sorted[j] ELSE sorted[j + 1]]

\* removePoint without its two early returns
RemovePoint_unguarded(channel, index) ==
  /\ CallFrame(Call("removePoint", channel, index, NoPoint, << >>, NoPartial))
  /\ updatePoints([points EXCEPT
        ![channel] = filterIndex(sortPoints(points[channel]), index)])

RemovePoint(channel, index) ==
  LET channelPoints == points[channel]
      sorted == sortPoints(channelPoints)
  IN /\ CallFrame(Call("removePoint", channel, index, NoPoint, << >>, NoPartial))
     /\ IF Len(channelPoints) <= 2
        THEN Rejected
        ELSE IF index = 0 \/ index = Len(sorted) - 1
        THEN Rejected
        ELSE updatePoints([points EXCEPT
               ![channel] = filterIndex(sorted, index)])

\* the end points dragged in x like any other value, kept inside [0,255]
constrainX_free(channelPoints, index, newX) == clamp(newX, 0, 255)

\* an interior point taking any x
constrainX_unclamped(channelPoints, index, newX) ==
  IF index = 0 THEN 0
  ELSE IF index = Len(channelPoints) - 1 THEN 255
  ELSE newX

\* The x updatePoint stores for the point at index (counted from 0) of the
\* sorted channelPoints.
constrainX(channelPoints, index, newX) ==
  IF index = 0 THEN 0
  ELSE IF index = Len(channelPoints) - 1 THEN 255
  ELSE clamp(newX,
             channelPoints[index].x + MIN_POINT_DISTANCE,
             channelPoints[index + 2].x - MIN_POINT_DISTANCE)

\* index addresses an existing point: with any other index the read of a
\* missing neighbour's x raises a TypeError before anything is stored.
UpdatePoint(channel, index, newPoint) ==
  LET channelPoints == sortPoints(points[channel])
      x == constrainX(channelPoints, index, newPoint.x)
      y == clamp(newPoint.y, 0, 255)
      newChannelPoints ==
        [i \in 1..Len(channelPoints) |->
           IF i = index + 1 THEN Pt(x, y) ELSE channelPoints[i]]
  IN /\ index \in 0..(Len(channelPoints) - 1)
     /\ CallFrame(Call("updatePoint", channel, index, newPoint, << >>, NoPartial))
     /\ updatePoints([points EXCEPT ![channel] = newChannelPoints])

\* resetChannel resetting every channel
ResetChannel_all(channel) ==
  /\ CallFrame(Call("resetChannel", channel, -1, NoPoint, << >>, NoPartial))
  /\ updatePoints(getDefaultChannelPoints)

ResetChannel(channel) ==
  /\ CallFrame(Call("resetChannel", channel, -1, NoPoint, << >>, NoPartial))
  /\ updatePoints([points EXCEPT ![channel] = getDefaultChannelPoints[channel]])

\* resetAll going back to the points the session was constructed with
ResetAll_toInitial ==
  /\ CallFrame(Call("resetAll", "all", -1, NoPoint, << >>, NoPartial))
  /\ updatePoints(initialPoints(defaultPoints))

ResetAll ==
  /\ CallFrame(Call("resetAll", "all", -1, NoPoint, << >>, NoPartial))
  /\ updatePoints(getDefaultChannelPoints)

\* setChannelPoints sorting every channel of the new ChannelSet
SetChannelPoints_sortAll(channel, newChannelPoints) ==
  /\ CallFrame(Call("setChannelPoints", channel, -1, NoPoint,
                    newChannelPoints, NoPartial))
  /\ updatePoints([c \in Channels |->
        IF c = channel THEN sortPoints(newChannelPoints)
        ELSE sortPoints(points[c])])

SetChannelPoints(channel, newChannelPoints) ==
  /\ CallFrame(Call("setChannelPoints", channel, -1, NoPoint,
                    newChannelPoints, NoPartial))
  /\ updatePoints([points EXCEPT ![channel] = sortPoints(newChannelPoints)])

\* setAllPoints keeping the previous points of a channel that is missing
SetAllPoints_keepMissing(newPoints) ==
  /\ CallFrame(Call("setAllPoints", "all", -1, NoPoint, << >>, newPoints))
  /\ updatePoints([c \in Channels |->
        IF c \in DOMAIN newPoints THEN sortPoints(newPoints[c])
        ELSE points[c]])

SetAllPoints(newPoints) ==
  /\ CallFrame(Call("setAllPoints", "all", -1, NoPoint, << >>, newPoints))
  /\ updatePoints([c \in Channels |-> sortPoints(OrDefault(newPoints, c))])

\* useMemo lut with the dependency list [points] only
lutMemo_pointsOnly(cached, pts, interp) ==
  IF cached.points = pts THEN cached ELSE LutOf(pts, interp)

\* useMemo lut: generateLUT(points, interpolation), computed again when points
\* or interpolation differ from those of the memoised LUTSet.
lutMemo(cached, pts, interp) ==
  IF cached.points = pts /\ cached.interpolation = interp THEN cached
  ELSE LutOf(pts, interp)

\* The hook's part of a render under the props controlled and interp: the
\* memos `points` and `lut` are recomputed and the callbacks are rebuilt over
\* them.
Rerender(controlled, interp) ==
  /\ controlledPoints' = controlled
  /\ interpolation' = interp
  /\ points' = pointsMemo(controlled, internalPoints)
  /\ lut' = lutMemo(lut, pointsMemo(controlled, internalPoints), interp)
  /\ lastCall' = Call("render", "all", -1, NoPoint, << >>, NoPartial)
  /\ notified' = NotNotified
  /\ UNCHANGED <<defaultPoints, internalPoints, nCalls>>

\* React renders again after a state update.
Render ==
  /\ points # pointsMemo(controlledPoints, internalPoints)
  /\ Rerender(controlledPoints, interpolation)

\* The parent of a controlled component renders it with a new `points` prop.
SetControlledProp(partial) ==
  /\ controlledPoints.given
  /\ Rerender(Prop(partial), interpolation)

\* The parent renders the component with another `interpolation` prop.
SetInterpolationProp(interp) ==
  /\ interp # interpolation
  /\ Rerender(controlledPoints, interp)

(* --------------------------- exact numbers ---------------------------- *)

\* The interpolators compute with JavaScript numbers.  The model computes the
\* same expressions exactly: a natural number is the sequence of its digits in
\* base BASE, least significant first and without leading zeros; an integer is
\* a sign and a magnitude; a fraction is an integer over a positive natural.
BASE == 10000

RECURSIVE NatOf(_)
NatOf(n) == IF n = 0 THEN << >> ELSE << n % BASE >> \o NatOf(n \div BASE)

Digit(a, i) == IF i <= Len(a) THEN a[i] ELSE 0

RECURSIVE NatAddFrom(_, _, _, _)
NatAddFrom(a, b, i, carry) ==
  IF i > Len(a) /\ i > Len(b)
  THEN IF carry = 0 THEN << >> ELSE << carry >>
  ELSE LET s == Digit(a, i) + Digit(b, i) + carry
       IN << s % BASE >> \o NatAddFrom(a, b, i + 1, s \div BASE)

NatAdd(a, b) == NatAddFrom(a, b, 1, 0)

RECURSIVE Trim(_)
Trim(a) ==
  IF a = << >> THEN a
  ELSE IF a[Len(a)] = 0 THEN Trim(SubSeq(a, 1, Len(a) - 1))
  ELSE a

\* a - b for a >= b
RECURSIVE NatSubFrom(_, _, _, _)
NatSubFrom(a, b, i, borrow) ==
  IF i > Len(a) THEN << >>
  ELSE LET s == Digit(a, i) - Digit(b, i) - borrow
       IN IF s < 0 THEN << s + BASE >> \o NatSubFrom(a, b, i + 1, 1)
          ELSE << s >> \o NatSubFrom(a, b, i + 1, 0)

NatSub(a, b) == Trim(NatSubFrom(a, b, 1, 0))

\* a < b, comparing from digit i downwards when the lengths agree
RECURSIVE NatLessFrom(_, _, _)
NatLessFrom(a, b, i) ==
  IF i = 0 THEN FALSE
  ELSE IF a[i] # b[i] THEN a[i] < b[i]
  ELSE NatLessFrom(a, b, i - 1)

NatLess(a, b) ==
  IF Len(a) # Len(b) THEN Len(a) < Len(b) ELSE NatLessFrom(a, b, Len(a))

\* a times the single digit k, plus carry
RECURSIVE NatTimesDigit(_, _, _, _)
NatTimesDigit(a, k, i, carry) ==
  IF i > Len(a) THEN IF carry = 0 THEN << >> ELSE << carry >>
  ELSE LET s == a[i] * k + carry
       IN << s % BASE >> \o NatTimesDigit(a, k, i + 1, s \div BASE)

RECURSIVE NatMulFrom(_, _, _)
NatMulFrom(a, b, j) ==
  IF j > Len(b) THEN << >>
  ELSE LET rest == NatMulFrom(a, b, j + 1)
           shifted == IF rest = << >> THEN rest ELSE << 0 >> \o rest
       IN IF b[j] = 0 THEN shifted
          ELSE NatAdd(NatTimesDigit(a, b[j], 1, 0), shifted)

NatMul(a, b) == IF a = << >> \/ b = << >> THEN << >> ELSE NatMulFrom(a, b, 1)

\* Integers.
ZOf(n) == [neg |-> n < 0, mag |-> NatOf(IF n < 0 THEN -n ELSE n)]

ZNeg(a) == [neg |-> ~a.neg /\ a.mag # << >>, mag |-> a.mag]

ZAdd(a, b) ==
  IF a.neg = b.neg THEN [neg |-> a.neg, mag |-> NatAdd(a.mag, b.mag)]
  ELSE IF NatLess(a.mag, b.mag)
  THEN [neg |-> b.neg, mag |-> NatSub(b.mag, a.mag)]
  ELSE LET m == NatSub(a.mag, b.mag)
       IN [neg |-> a.neg /\ m # << >>, mag |-> m]

ZSub(a, b) == ZAdd(a, ZNeg(b))

ZMul(a, b) ==
  LET m == NatMul(a.mag, b.mag)
  IN [neg |-> (a.neg # b.neg) /\ m # << >>, mag |-> m]

ZLess(a, b) ==
  IF a.neg # b.neg THEN a.neg
  ELSE IF a.neg THEN NatLess(b.mag, a.mag)
  ELSE NatLess(a.mag, b.mag)

ZIsZero(a) == a.mag = << >>

\* Fractions n/d with d a positive natural.  A fraction whose numerator and
\* denominator are both below BASE^2 is kept in lowest terms.
QOf(n) == [n |-> ZOf(n), d |-> << 1 >>]

QNat(d) == [neg |-> FALSE, mag |-> d]

IsSmall(a) == Len(a) <= 2

SmallValue(a) == Digit(a, 1) + BASE * Digit(a, 2)

RECURSIVE Gcd(_, _)
Gcd(a, b) == IF b = 0 THEN a ELSE Gcd(b, a % b)

QReduce(a) ==
  IF IsSmall(a.n.mag) /\ IsSmall(a.d)
  THEN LET n == SmallValue(a.n.mag)
           d == SmallValue(a.d)
           g == Gcd(n, d)
       IN [n |-> [neg |-> a.n.neg, mag |-> NatOf(n \div g)],
           d |-> NatOf(d \div g)]
  ELSE a

QIsZero(a) == ZIsZero(a.n)

QIsNeg(a) == a.n.neg

QAdd(a, b) ==
  IF a.d = b.d THEN QReduce([n |-> ZAdd(a.n, b.n), d |-> a.d])
  ELSE IF IsSmall(a.d) /\ IsSmall(b.d)
  THEN LET g == Gcd(SmallValue(a.d), SmallValue(b.d))
           da == NatOf(SmallValue(a.d) \div g)
           db == NatOf(SmallValue(b.d) \div g)
       IN QReduce([n |-> ZAdd(ZMul(a.n, QNat(db)), ZMul(b.n, QNat(da))),
                   d |-> NatMul(da, b.d)])
  ELSE [n |-> ZAdd(ZMul(a.n, QNat(b.d)), ZMul(b.n, QNat(a.d))),
        d |-> NatMul(a.d, b.d)]

QNeg(a) == [n |-> ZNeg(a.n), d |-> a.d]

QSub(a, b) == QAdd(a, QNeg(b))

\* (a.n / b.d) * (b.n / a.d)
QMul(a, b) ==
  IF QIsZero(a) \/ QIsZero(b) THEN QOf(0)
  ELSE LET p == QReduce([n |-> a.n, d |-> b.d])
           q == QReduce([n |-> b.n, d |-> a.d])
       IN [n |-> ZMul(p.n, q.n), d |-> NatMul(p.d, q.d)]

\* a / b for b # 0
QDiv(a, b) == QMul(a, [n |-> [neg |-> b.n.neg, mag |-> b.d], d |-> b.n.mag])

QLess(a, b) == ZLess(ZMul(a.n, QNat(b.d)), ZMul(b.n, QNat(a.d)))

\* p / q for integers p and q, q # 0
QRatio(p, q) ==
  QReduce([n |-> ZOf(IF q < 0 THEN -p ELSE p),
           d |-> NatOf(IF q < 0 THEN -q ELSE q)])

\* The value u + v / sqrt(w) with fractions u, v, w and w > 0: what the
\* Hermite sum is once a tangent has been scaled by tau = 3 / Math.sqrt(sum).
Num(q) == [u |-> q, v |-> QOf(0), w |-> QOf(1)]

NumOverSqrt(q, radicand) == [u |-> QOf(0), v |-> q, w |-> radicand]

NumTimes(a, q) == [u |-> QMul(a.u, q), v |-> QMul(a.v, q), w |-> a.w]

\* the sum of two values whose square roots, where present, are the same
NumAdd(a, b) ==
  [u |-> QAdd(a.u, b.u), v |-> QAdd(a.v, b.v),
   w |-> IF QIsZero(a.v) THEN b.w ELSE a.w]

\* a >= c for a fraction c
NumAtLeast(a, c) ==
  LET e == QSub(c, a.u)
      vv == QMul(a.v, a.v)
      eew == QMul(QMul(e, e), a.w)
  IN IF QIsZero(a.v) THEN ~QLess(a.u, c)
     ELSE IF ~QIsNeg(a.v)
     THEN QIsNeg(e) \/ QIsZero(e) \/ ~QLess(vv, eew)
     ELSE QIsNeg(e) /\ ~QLess(eew, vv)

\* Math.round gives the integer k with k - 1/2 <= a < k + 1/2.  It is looked
\* for between RoundLo and RoundHi and taken as that end beyond them: clamp
\* maps RoundLo as it maps every smaller value and RoundHi as every larger.
RoundLo == -1

RoundHi == 256

HalfBelow(k) == QRatio(2 * k - 1, 2)

RECURSIVE RoundBetween(_, _, _)
RoundBetween(a, lo, hi) ==
  IF lo = hi THEN lo
  ELSE LET mid == (lo + hi + 1) \div 2
       IN IF NumAtLeast(a, HalfBelow(mid))
          THEN RoundBetween(a, mid, hi)
          ELSE RoundBetween(a, lo, mid - 1)

MathRound(a) == RoundBetween(a, RoundLo, RoundHi)

(* --------------------------- interpolators ---------------------------- *)

\* the segment search staying at the first segment
findSegment_first(sorted, x, i) == 0

\* let i = 0; while (i < n - 1 && sorted[i + 1].x < x) i++;   i counts from 0
RECURSIVE findSegment(_, _, _)
findSegment(sorted, x, i) ==
  IF i < Len(sorted) - 1 /\ sorted[i + 2].x < x
  THEN findSegment(sorted, x, i + 1)
  ELSE i

\* The tangent at an end of the segment that is not an end of the curve,
\* before the limiter: the mean of the two secant slopes, 0 when the
\* neighbouring points share an x.
finiteDifference(slope, otherDx, otherDy) ==
  IF otherDx = 0 THEN QOf(0)
  ELSE QMul(QAdd(slope, QRatio(otherDy, otherDx)), QRatio(1, 2))

\* the limiter left out: the finite-difference tangents as they are
limitTangents_unlimited(slope, m0, m1) == << Num(m0), Num(m1) >>

\* "Ensure monotonicity": the tangents << m0, m1 >> the Hermite sum uses.
limitTangents(slope, m0, m1) ==
  IF QIsZero(slope) THEN << Num(QOf(0)), Num(QOf(0)) >>
  ELSE LET alpha == QDiv(m0, slope)
           beta == QDiv(m1, slope)
           sum == QAdd(QMul(alpha, alpha), QMul(beta, beta))
       IN IF QLess(QOf(9), sum)
          THEN << NumOverSqrt(QMul(QMul(QOf(3), alpha), slope), sum),
                  NumOverSqrt(QMul(QMul(QOf(3), beta), slope), sum) >>
          ELSE << Num(IF QIsNeg(alpha) THEN QOf(0) ELSE m0),
                  Num(IF QIsNeg(beta) THEN QOf(0) ELSE m1) >>

\* h00 * y0 + h10 * dx * m0 + h01 * y1 + h11 * dx * m1
hermite(t, y0, y1, dx, m0, m1) ==
  LET t2 == QMul(t, t)
      t3 == QMul(t2, t)
      h00 == QAdd(QSub(QMul(QOf(2), t3), QMul(QOf(3), t2)), QOf(1))
      h10 == QAdd(QSub(t3, QMul(QOf(2), t2)), t)
      h01 == QAdd(QMul(QOf(-2), t3), QMul(QOf(3), t2))
      h11 == QSub(t3, t2)
  IN NumAdd(NumAdd(NumAdd(Num(QMul(h00, QOf(y0))),
                          NumTimes(m0, QMul(h10, QOf(dx)))),
                   Num(QMul(h01, QOf(y1)))),
            NumTimes(m1, QMul(h11, QOf(dx))))

monotoneCubicInterpolation(pts, x) ==
  LET sorted == sortPoints(pts)
      n == Len(sorted)
  IN IF n = 0 THEN x
     ELSE IF n = 1 THEN sorted[1].y
     ELSE IF x <= sorted[1].x THEN sorted[1].y
     ELSE IF x >= sorted[n].x THEN sorted[n].y
     ELSE
       LET i == findSegment(sorted, x, 0)
           x0 == sorted[i + 1].x
           x1 == sorted[i + 2].x
           y0 == sorted[i + 1].y
           y1 == sorted[i + 2].y
           dx == x1 - x0
           dy == y1 - y0
       IN IF dx = 0 THEN y0
          ELSE
            LET slope == QRatio(dy, dx)
                m0 == IF i = 0 THEN slope
                      ELSE finiteDifference(slope,
                             x0 - sorted[i].x, y0 - sorted[i].y)
                m1 == IF i = n - 2 THEN slope
                      ELSE finiteDifference(slope,
                             sorted[i + 3].x - x1, sorted[i + 3].y - y1)
                m == limitTangents(slope, m0, m1)
                result == hermite(QRatio(x - x0, dx), y0, y1, dx, m[1], m[2])
            IN clamp(MathRound(result), 0, 255)

\* 0.5 * (2 * p1.y + (-p0.y + p2.y) * t + (2 * p0.y - 5 * p1.y + 4 * p2.y
\* - p3.y) * t2 + (-p0.y + 3 * p1.y - 3 * p2.y + p3.y) * t3)
catmullRom(t, p0, p1, p2, p3) ==
  LET t2 == QMul(t, t)
      t3 == QMul(t2, t)
  IN QMul(QRatio(1, 2),
       QAdd(QAdd(QAdd(QOf(2 * p1.y),
                      QMul(QOf(-p0.y + p2.y), t)),
                 QMul(QOf(2 * p0.y - 5 * p1.y + 4 * p2.y - p3.y), t2)),
            QMul(QOf(-p0.y + 3 * p1.y - 3 * p2.y + p3.y), t3)))

catmullRomInterpolation(pts, x) ==
  LET sorted == sortPoints(pts)
      n == Len(sorted)
  IN IF n = 0 THEN x
     ELSE IF n = 1 THEN sorted[1].y
     ELSE IF x <= sorted[1].x THEN sorted[1].y
     ELSE IF x >= sorted[n].x THEN sorted[n].y
     ELSE
       LET i == findSegment(sorted, x, 0)
           p0 == sorted[MathMax(0, i - 1) + 1]
           p1 == sorted[i + 1]
           p2 == sorted[MathMin(n - 1, i + 1) + 1]
           p3 == sorted[MathMin(n - 1, i + 2) + 1]
           dx == p2.x - p1.x
       IN IF dx = 0 THEN p1.y
          ELSE clamp(MathRound(Num(catmullRom(QRatio(x - p1.x, dx),
                                              p0, p1, p2, p3))), 0, 255)

\* every result clamped into [0,255], the echo of x for an empty list too
interpolate_clamped(interp, pts, x) ==
  clamp(IF interp = "monotone" THEN monotoneCubicInterpolation(pts, x)
        ELSE catmullRomInterpolation(pts, x), 0, 255)

interpolate(interp, pts, x) ==
  IF interp = "monotone" THEN monotoneCubicInterpolation(pts, x)
  ELSE catmullRomInterpolation(pts, x)

(* --------------------------- lookup tables ---------------------------- *)

LUT_SIZE == 256

\* The store of a number into a Uint8Array element keeps it modulo 2^8.
ToUint8(v) == v % 256

\* A call of one of the two exported interpolators on the list, at x.
InterpolateAt(x) ==
  /\ table = << >>
  /\ sample' = [called |-> TRUE, x |-> x, y |-> interpolate(kind, curve, x)]
  /\ UNCHANGED <<curve, kind, table>>

\* One turn of generateChannelLUT's loop: lut[i] = interpolate(points, i).
TabulateStep ==
  /\ \E i \in 0 .. LUT_SIZE - 1 :
       /\ i = Len(table)
       /\ sample' = [called |-> TRUE, x |-> i, y |-> interpolate(kind, curve, i)]
       /\ table' = Append(table, ToUint8(sample'.y))
  /\ UNCHANGED <<curve, kind>>

(* ------------------------------ applyLUT ------------------------------ *)

\* A Uint8Array of 256 entries is a sequence; entry i of the array is at i + 1.
IdentityTable == [i \in 1..LUT_SIZE |-> i - 1]

\* 255 - x
InvertTable == [i \in 1..LUT_SIZE |-> LUT_SIZE - i]

\* 2 * x, at most 255
DoubleTable == [i \in 1..LUT_SIZE |-> MathMin(2 * (i - 1), 255)]

\* applyLUT handing the value to the master table before the channel's own
applyLUT_masterFirst(r, g, b, l) ==
  << l.red[l.master[clamp(r, 0, 255) + 1] + 1],
     l.green[l.master[clamp(g, 0, 255) + 1] + 1],
     l.blue[l.master[clamp(b, 0, 255) + 1] + 1] >>

applyLUT(r, g, b, l) ==
  LET newR == l.red[clamp(r, 0, 255) + 1]
      newG == l.green[clamp(g, 0, 255) + 1]
      newB == l.blue[clamp(b, 0, 255) + 1]
  IN << l.master[newR + 1], l.master[newG + 1], l.master[newB + 1] >>

\* A call applyLUT(r, g, b, lutData).
ApplyLUT(r, g, b) ==
  /\ pixel' = [called |-> TRUE, r |-> r, g |-> g, b |-> b,
               out |-> applyLUT(r, g, b, lutData)]
  /\ UNCHANGED lutData

(* ------------------------- canvas interaction ------------------------- *)

POINT_HIT_THRESHOLD == 12

DEFAULT_WIDTH == 300

DEFAULT_HEIGHT == 300

\* No index: the null of activePointIndex and hoveredPointIndex.
Null == -1

\* Math.round(p / q) for q > 0: the integer k with k - 1/2 <= p/q < k + 1/2.
RoundRatio(p, q) == (2 * p + q) \div (2 * q)

\* canvasToCurve: x = round(canvasX / width * 255),
\* y = round((1 - canvasY / height) * 255).
canvasToCurve(canvasX, canvasY) ==
  Pt(RoundRatio(255 * canvasX, DEFAULT_WIDTH),
     RoundRatio(255 * (DEFAULT_HEIGHT - canvasY), DEFAULT_HEIGHT))

\* isPointNear of the position and curveToCanvas(p.x, p.y), with threshold
\* POINT_HIT_THRESHOLD: both differences are taken times 255, and a
\* difference beyond the threshold on one axis decides alone.
isPointNear(canvasX, canvasY, p) ==
  LET dx == 255 * canvasX - p.x * DEFAULT_WIDTH
      dy == 255 * canvasY - (255 - p.y) * DEFAULT_HEIGHT
      far == 255 * POINT_HIT_THRESHOLD
  IN /\ Abs(dx) <= far
     /\ Abs(dy) <= far
     /\ dx * dx + dy * dy <= far * far

\* findPointAtPosition: the first index, counted from 0, of a point of the
\* sorted list near the position, Null without one.
RECURSIVE findPointFrom(_, _, _, _)
findPointFrom(sorted, canvasX, canvasY, i) ==
  IF i >= Len(sorted) THEN Null
  ELSE IF isPointNear(canvasX, canvasY, sorted[i + 1]) THEN i
  ELSE findPointFrom(sorted, canvasX, canvasY, i + 1)

findPointAtPosition(pts, canvasX, canvasY) ==
  findPointFrom(sortPoints(pts), canvasX, canvasY, 0)

\* const activeChannel = controlledChannel ?? internalChannel
activeChannel ==
  IF controlledChannel # "none" THEN controlledChannel ELSE internalChannel

\* An event without a position.
NoPosition == <<0, 0>>

\* The last event: its kind, its position on the canvas, the callback its
\* handler invoked, and whether a mousedown on a control point has come with
\* no mouseup, mouseleave or window mouseup after it.
Gesture(event, position, callback, pressed) ==
  [event |-> event, position |-> position, callback |-> callback,
   pressed |-> pressed]

\* The handler returned without a callback and without a state update.
NothingInvoked(event, position, pressed) ==
  /\ gesture' = Gesture(event, position, "none", pressed)
  /\ UNCHANGED <<activePointIndex, hoveredPointIndex, isDragging>>
  /\ UNCHANGED sessionVars

\* Events leave the props, the channel and the handlers' closure alone.
EventFrame ==
  UNCHANGED <<disabled, controlledChannel, rendered>>

\* handleMouseDown
handleMouseDown(canvasX, canvasY) ==
  LET pointIndex ==
        findPointAtPosition(points[rendered.channel], canvasX, canvasY)
      pressed == gesture.pressed \/ pointIndex # Null
  IN /\ EventFrame
     /\ UNCHANGED internalChannel
     /\ IF disabled THEN NothingInvoked("mousedown", <<canvasX, canvasY>>, pressed)
        ELSE IF pointIndex # Null
        THEN /\ activePointIndex' = pointIndex
             /\ isDragging' = TRUE
             /\ gesture' = Gesture("mousedown", <<canvasX, canvasY>>, "none", pressed)
             /\ UNCHANGED hoveredPointIndex
             /\ UNCHANGED sessionVars
        ELSE /\ AddPoint(rendered.channel, canvasToCurve(canvasX, canvasY))
             /\ gesture' = Gesture("mousedown", <<canvasX, canvasY>>, "onAddPoint", pressed)
             /\ UNCHANGED <<activePointIndex, hoveredPointIndex, isDragging>>

\* handleMouseMove without its first line
handleMouseMove_enabled(canvasX, canvasY) ==
  /\ EventFrame
  /\ UNCHANGED internalChannel
  /\ IF isDragging /\ rendered.activePointIndex # Null
     THEN /\ gesture' = Gesture("mousemove", <<canvasX, canvasY>>, "onUpdatePoint", gesture.pressed)
          /\ UNCHANGED <<activePointIndex, hoveredPointIndex, isDragging>>
          /\ IF rendered.activePointIndex < Len(points[rendered.channel])
             THEN UpdatePoint(rendered.channel, rendered.activePointIndex,
                              canvasToCurve(canvasX, canvasY))
             ELSE UNCHANGED sessionVars
     ELSE /\ hoveredPointIndex' =
               findPointAtPosition(points[rendered.channel], canvasX, canvasY)
          /\ gesture' = Gesture("mousemove", <<canvasX, canvasY>>, "none", gesture.pressed)
          /\ UNCHANGED <<activePointIndex, isDragging>>
          /\ UNCHANGED sessionVars

\* handleMouseMove.  onUpdatePoint with an index beyond the channel's points
\* raises a TypeError in updatePoint before anything is stored.
handleMouseMove(canvasX, canvasY) ==
  IF disabled
  THEN /\ EventFrame
       /\ UNCHANGED internalChannel
       /\ NothingInvoked("mousemove", <<canvasX, canvasY>>, gesture.pressed)
  ELSE handleMouseMove_enabled(canvasX, canvasY)

\* handleMouseUp, and handleGlobalMouseUp of the window listener
handleMouseUp(event) ==
  /\ EventFrame
  /\ isDragging' = FALSE
  /\ activePointIndex' = Null
  /\ gesture' = Gesture(event, NoPosition, "none", FALSE)
  /\ UNCHANGED <<internalChannel, hoveredPointIndex>>
  /\ UNCHANGED sessionVars

\* handleMouseLeave clearing the hover only
handleMouseLeave_hoverOnly ==
  /\ EventFrame
  /\ hoveredPointIndex' = Null
  /\ gesture' = Gesture("mouseleave", NoPosition, "none", FALSE)
  /\ UNCHANGED <<internalChannel, activePointIndex, isDragging>>
  /\ UNCHANGED sessionVars

\* handleMouseLeave
handleMouseLeave ==
  /\ EventFrame
  /\ isDragging' = FALSE
  /\ activePointIndex' = Null
  /\ hoveredPointIndex' = Null
  /\ gesture' = Gesture("mouseleave", NoPosition, "none", FALSE)
  /\ UNCHANGED internalChannel
  /\ UNCHANGED sessionVars

\* handleDoubleClick
handleDoubleClick(canvasX, canvasY) ==
  LET pointIndex ==
        findPointAtPosition(points[rendered.channel], canvasX, canvasY)
  IN /\ EventFrame
     /\ UNCHANGED internalChannel
     /\ IF disabled \/ pointIndex = Null
        THEN NothingInvoked("dblclick", <<canvasX, canvasY>>, gesture.pressed)
        ELSE /\ RemovePoint(rendered.channel, pointIndex)
             /\ gesture' = Gesture("dblclick", <<canvasX, canvasY>>, "onRemovePoint", gesture.pressed)
             /\ UNCHANGED <<activePointIndex, hoveredPointIndex, isDragging>>

\* ChannelTabs.handleClick calling RGBCurve.handleChannelChange
handleClick(channel) ==
  /\ EventFrame
  /\ UNCHANGED <<activePointIndex, hoveredPointIndex, isDragging>>
  /\ UNCHANGED sessionVars
  /\ IF disabled
     THEN /\ gesture' = Gesture("click", NoPosition, "none", gesture.pressed)
          /\ UNCHANGED internalChannel
     ELSE /\ gesture' = Gesture("click", NoPosition, "onChannelChange", gesture.pressed)
          /\ internalChannel' =
               IF controlledChannel = "none" THEN channel ELSE internalChannel

\* A render of RGBCurve with the `disabled` prop d: the hook's memos and the
\* handlers are rebuilt over the state cells as they are now.
RenderCanvas(d) ==
  /\ disabled' = d
  /\ rendered' = [channel |-> activeChannel,
                  activePointIndex |-> activePointIndex]
  /\ gesture' = Gesture("render", NoPosition, "none", gesture.pressed)
  /\ Rerender(controlledPoints, interpolation)
  /\ UNCHANGED <<controlledChannel, internalChannel, activePointIndex,
                 hoveredPointIndex, isDragging>>

(* -------------------------- specifications ---------------------------- *)

Interpolations == {"monotone", "catmullRom"}

NoSample == [called |-> FALSE, x |-> 0, y |-> 0]

\* No list is being tabulated.
LutIdle ==
  /\ curve = << >>
  /\ kind = "monotone"
  /\ table = << >>
  /\ sample = NoSample

NoPixel == [called |-> FALSE, r |-> 0, g |-> 0, b |-> 0, out |-> <<0, 0, 0>>]

\* applyLUT has not been called.
PixelIdle ==
  /\ lutData = [c \in Channels |-> IdentityTable]
  /\ pixel = NoPixel

\* The canvas of a component with the props disabled = d and
\* activeChannel = channel ("none" when the prop is not given), before any
\* event; defaultChannel is 'master'.
CanvasWith(d, channel) ==
  /\ disabled = d
  /\ controlledChannel = channel
  /\ internalChannel = "master"
  /\ activePointIndex = Null
  /\ hoveredPointIndex = Null
  /\ isDragging = FALSE
  /\ rendered = [channel |-> IF channel # "none" THEN channel ELSE "master",
                 activePointIndex |-> Null]
  /\ gesture = Gesture("init", NoPosition, "none", FALSE)

CanvasIdle == CanvasWith(FALSE, "none")

\* The variables outside the hook's state.
outsideSession ==
  <<curve, kind, table, sample, lutData, pixel, disabled, controlledChannel,
    internalChannel, activePointIndex, hoveredPointIndex, isDragging,
    rendered, gesture>>

SessionWith(defaults, controlled, interp) ==
  /\ defaultPoints = defaults
  /\ controlledPoints = controlled
  /\ interpolation = interp
  /\ internalPoints = initialPoints(defaults)
  /\ points = pointsMemo(controlled, initialPoints(defaults))
  /\ lut = LutOf(pointsMemo(controlled, initialPoints(defaults)), interp)
  /\ nCalls = 0
  /\ lastCall = Call("init", "all", -1, NoPoint, << >>, NoPartial)
  /\ notified = NotNotified

InitWith(defaults, controlled, interp) ==
  /\ SessionWith(defaults, controlled, interp)
  /\ LutIdle
  /\ PixelIdle
  /\ CanvasIdle

\* Any props.
Init ==
  \E defaults \in {NoProp, Prop(DefaultPartial)},
     controlled \in {NoProp} \cup {Prop(p) : p \in SuppliedPartials},
     interp \in Interpolations :
    InitWith(defaults, controlled, interp)

\* The default ChannelSet, uncontrolled.
InitDefault == InitWith(NoProp, NoProp, "monotone")

ValidIndices(channel) == 0..(Len(points[channel]) - 1)

MoreCalls == nCalls < MaxCalls

Next ==
  \/ /\ \E c \in DragChannels, p \in AddInputs : MoreCalls /\ AddPoint(c, p)
     /\ UNCHANGED outsideSession
  \/ /\ \E c \in DragChannels :
          \E i \in ValidIndices(c) : MoreCalls /\ RemovePoint(c, i)
     /\ UNCHANGED outsideSession
  \/ /\ \E c \in DragChannels, p \in DragInputs :
          \E i \in ValidIndices(c) : MoreCalls /\ UpdatePoint(c, i, p)
     /\ UNCHANGED outsideSession
  \/ /\ \E c \in SetChannels : MoreCalls /\ ResetChannel(c)
     /\ UNCHANGED outsideSession
  \/ /\ MoreCalls /\ ResetAll
     /\ UNCHANGED outsideSession
  \/ /\ \E c \in SetChannels, l \in SuppliedLists :
          MoreCalls /\ SetChannelPoints(c, l)
     /\ UNCHANGED outsideSession
  \/ /\ \E p \in SuppliedPartials : MoreCalls /\ SetAllPoints(p)
     /\ UNCHANGED outsideSession
  \/ /\ Render
     /\ UNCHANGED outsideSession
  \/ /\ \E p \in SuppliedPartials : SetControlledProp(p)
     /\ UNCHANGED outsideSession
  \/ /\ \E interp \in Interpolations : SetInterpolationProp(interp)
     /\ UNCHANGED outsideSession

Spec == Init /\ [][Next]_vars

\* removePoint with any index: those of the existing points, one below and
\* one above.
RemoveIndices(channel) == -1 .. Len(points[channel])

NextRemove ==
  \/ /\ \E c \in DragChannels, p \in AddInputs : MoreCalls /\ AddPoint(c, p)
     /\ UNCHANGED outsideSession
  \/ /\ \E c \in DragChannels :
          \E i \in RemoveIndices(c) : MoreCalls /\ RemovePoint(c, i)
     /\ UNCHANGED outsideSession
  \/ /\ Render
     /\ UNCHANGED outsideSession

SpecRemove == Init /\ [][NextRemove]_vars

\* addPoint, removePoint and updatePoint with coordinates in [0,255] and
\* indices of existing points.
MoreEditCalls == nCalls < MaxEditCalls

NextEdit ==
  \/ /\ \E c \in EditChannels, p \in InPoints : MoreEditCalls /\ AddPoint(c, p)
     /\ UNCHANGED outsideSession
  \/ /\ \E c \in EditChannels :
          \E i \in ValidIndices(c) : MoreEditCalls /\ RemovePoint(c, i)
     /\ UNCHANGED outsideSession
  \/ /\ \E c \in EditChannels, p \in InPoints :
          \E i \in ValidIndices(c) : MoreEditCalls /\ UpdatePoint(c, i, p)
     /\ UNCHANGED outsideSession
  \/ /\ Render
     /\ UNCHANGED outsideSession

SpecEdit == InitDefault /\ [][NextEdit]_vars

\* Point lists handed to the interpolators and to generateChannelLUT.
Curves ==
  { << >>,
    << Pt(128, 50) >>,
    << Pt(0, 0), Pt(255, 255) >>,
    << Pt(0, 0), Pt(128, 200), Pt(255, 255) >>,
    << Pt(255, 255), Pt(128, 50), Pt(0, 0) >>,
    << Pt(128, 200), Pt(128, 50), Pt(126, 0) >>,
    << Pt(100, 50), Pt(110, 200), Pt(120, 210) >>,
    << Pt(0, 0), Pt(10, 5), Pt(20, 250), Pt(255, 255) >>,
    << Pt(0, 0), Pt(64, 10), Pt(128, 200), Pt(192, 210), Pt(255, 255) >>,
    << Pt(0, 255), Pt(100, 40), Pt(110, 43), Pt(255, 253) >>,
    << Pt(0, 0), Pt(255, 300) >>,
    << Pt(0, -7), Pt(255, 255) >>,
    << Pt(0, 255), Pt(100, 80), Pt(150, 80), Pt(255, 0) >>,
    << Pt(0, 40), Pt(128, 40), Pt(255, 200) >> }

\* The x of the direct calls of an interpolator, outside 0..255 too.
DirectQueries == {-9, -1, 0, 126, 128, 255, 256, 300}

InitLUT ==
  /\ SessionWith(NoProp, NoProp, "monotone")
  /\ PixelIdle
  /\ CanvasIdle
  /\ curve \in Curves
  /\ kind \in Interpolations
  /\ table = << >>
  /\ sample = NoSample

NextLUT ==
  \/ /\ \E x \in DirectQueries : InterpolateAt(x)
     /\ UNCHANGED <<sessionVars, pixelVars, canvasVars>>
  \/ /\ TabulateStep
     /\ UNCHANGED <<sessionVars, pixelVars, canvasVars>>

SpecLUT == InitLUT /\ [][NextLUT]_vars

\* The LUTSets handed to applyLUT: master and red the identity, the
\* inversion or the doubling, green and blue unlike each other.
Tables == {IdentityTable, InvertTable, DoubleTable}

LutSets ==
  [master : Tables, red : Tables, green : {IdentityTable, InvertTable},
   blue : {DoubleTable}]

\* The r, g and b handed to applyLUT, outside 0..255 too.
Intensities == {-3, 0, 10, 20, 255, 300}

InitApply ==
  /\ SessionWith(NoProp, NoProp, "monotone")
  /\ LutIdle
  /\ CanvasIdle
  /\ lutData \in LutSets
  /\ pixel = NoPixel

NextApply ==
  /\ \E r \in Intensities, g \in Intensities, b \in Intensities :
       ApplyLUT(r, g, b)
  /\ UNCHANGED <<sessionVars, lutVars, canvasVars>>

SpecApply == InitApply /\ [][NextApply]_vars

MoreCanvasCalls == nCalls < MaxCanvasCalls

\* Positions on the canvas, in pixels from its top left corner: on the
\* first point of the diagonal, the middle, and a place near no point.
CanvasPositions == { <<0, 300>>, <<150, 150>>, <<60, 240>> }

\* The tabs clicked.
TabChannels == {"red"}

InitCanvas ==
  /\ SessionWith(NoProp, NoProp, "monotone")
  /\ LutIdle
  /\ PixelIdle
  /\ \E d \in BOOLEAN, channel \in {"none", "green"} : CanvasWith(d, channel)

NextCanvas ==
  \/ /\ \E pos \in CanvasPositions :
          MoreCanvasCalls /\ handleMouseDown(pos[1], pos[2])
     /\ UNCHANGED <<lutVars, pixelVars>>
  \/ /\ \E pos \in CanvasPositions :
          MoreCanvasCalls /\ handleMouseMove(pos[1], pos[2])
     /\ UNCHANGED <<lutVars, pixelVars>>
  \/ /\ handleMouseUp("mouseup")
     /\ UNCHANGED <<lutVars, pixelVars>>
  \/ /\ handleMouseUp("window mouseup")
     /\ UNCHANGED <<lutVars, pixelVars>>
  \/ /\ handleMouseLeave
     /\ UNCHANGED <<lutVars, pixelVars>>
  \/ /\ \E pos \in CanvasPositions :
          MoreCanvasCalls /\ handleDoubleClick(pos[1], pos[2])
     /\ UNCHANGED <<lutVars, pixelVars>>
  \/ /\ \E c \in TabChannels : handleClick(c)
     /\ UNCHANGED <<lutVars, pixelVars>>
  \/ /\ \E d \in BOOLEAN : RenderCanvas(d)
     /\ UNCHANGED <<lutVars, pixelVars>>

SpecCanvas == InitCanvas /\ [][NextCanvas]_vars

(* ------------------------ vocabulary of the claims --------------------- *)

Diagonal == << [x |-> 0, y |-> 0], [x |-> 255, y |-> 255] >>

SortedByX(s) == \A i \in 1..(Len(s) - 1) : s[i].x <= s[i + 1].x

Spaced(s) == \A i \in 1..(Len(s) - 1) : s[i + 1].x - s[i].x >= 5

InByteRange(v) == v >= 0 /\ v <= 255

Uncontrolled == ~controlledPoints.given

(* ------------------------------ claims -------------------------------- *)

\* C1: from the default ChannelSet, uncontrolled, after any sequence of
\* addPoint, removePoint and updatePoint calls with coordinates in [0,255] and
\* indices of existing points, every channel's stored point set is sorted by
\* ascending x, holds at least 2 points, and has adjacent points at least
\* MIN_POINT_DISTANCE (5) apart in x.
C1_PointSetInvariants ==
  \A c \in Channels :
    /\ Len(internalPoints[c]) >= 2
    /\ SortedByX(internalPoints[c])
    /\ Spaced(internalPoints[c])

\* An updatePoint has pushed an interior point to exactly 5 from a neighbour.
C1_Witness ==
  /\ lastCall.op = "updatePoint"
  /\ Len(internalPoints[lastCall.channel]) >= 3
  /\ lastCall.index = 1
  /\ internalPoints[lastCall.channel][2].x - internalPoints[lastCall.channel][1].x = 5

\* C2 (as claimed): after addPoint and updatePoint calls with arbitrary
\* integer coordinates every stored control point has x and y in [0,255].
C2_StoredInByteRange ==
  \A c \in Channels : \A i \in 1..Len(internalPoints[c]) :
    InByteRange(internalPoints[c][i].x) /\ InByteRange(internalPoints[c][i].y)

\* C3 (as claimed): after any sequence of session operations, setChannelPoints
\* and setAllPoints with arbitrary lists included, every channel's point set
\* holds at least 2 points.
C3_AlwaysAtLeastTwo ==
  \A c \in Channels : Len(internalPoints[c]) >= 2

\* C3 (amended): a call other than setChannelPoints and setAllPoints leaves
\* every channel that held at least 2 points with at least 2 points;
\* setChannelPoints and setAllPoints store for each supplied channel exactly
\* as many points as the caller supplied, fewer than 2 included.
C3_AtLeastTwoUnlessSupplied ==
  [][notified'.count = 1 =>
       /\ Uncontrolled => internalPoints' = notified'.points
       /\ \A c \in Channels :
            IF lastCall'.op = "setChannelPoints" /\ c = lastCall'.channel
            THEN Len(notified'.points[c]) = Len(lastCall'.list)
            ELSE IF lastCall'.op = "setAllPoints" /\ c \in DOMAIN lastCall'.partial
            THEN Len(notified'.points[c]) = Len(lastCall'.partial[c])
            ELSE lastCall'.op = "setAllPoints" \/ Len(points[c]) >= 2
                   => Len(notified'.points[c]) >= 2]_vars

\* setChannelPoints has stored a supplied list of fewer than 2 points.
C3_Witness ==
  /\ lastCall.op = "setChannelPoints"
  /\ Len(lastCall.list) < 2
  /\ Uncontrolled
  /\ Len(internalPoints[lastCall.channel]) = Len(lastCall.list)

\* How often q occurs in the point list s.
Count(s, q) == Cardinality({i \in 1..Len(s) : s[i] = q})

\* Some point of s is closer than 5 to x.
SomeWithin5(s, x) == \E i \in 1..Len(s) : s[i].x - x < 5 /\ x - s[i].x < 5

\* C4: addPoint(channel, p) is a silent no-op whenever some existing point q
\* of the channel has |q.x - p.x| < 5: the stored ChannelSet and the ChannelSet
\* the LUTSet is derived from are unchanged and the change listener is not
\* invoked.
C4_TooCloseIsNoOp ==
  [][lastCall'.op = "addPoint"
       /\ SomeWithin5(points[lastCall'.channel], lastCall'.point.x)
     => /\ internalPoints' = internalPoints
        /\ points' = points
        /\ notified'.count = 0]_vars

\* addPoint('red', (130,50)) was rejected with a point at x = 128 present.
C4_Witness ==
  /\ lastCall.op = "addPoint"
  /\ lastCall.point = [x |-> 130, y |-> 50]
  /\ Len(points.red) = 3
  /\ points.red[2].x = 128
  /\ internalPoints.red = points.red
  /\ notified.count = 0

\* C5: addPoint(channel, p) with every existing point at least 5 away in x is
\* accepted: the new point set is the old points plus p, sorted by ascending
\* x, one longer, with every previous point kept.
C5_AddAccepted ==
  [][lastCall'.op = "addPoint"
       /\ ~SomeWithin5(points[lastCall'.channel], lastCall'.point.x)
     => LET old == points[lastCall'.channel]
            new == notified'.points[lastCall'.channel]
            p == lastCall'.point
        IN /\ notified'.count = 1
           /\ Uncontrolled => internalPoints' = notified'.points
           /\ Len(new) = Len(old) + 1
           /\ SortedByX(new)
           /\ Count(new, p) = Count(old, p) + 1
           /\ \A i \in 1..Len(old) :
                old[i] # p => Count(new, old[i]) = Count(old, old[i])]_vars

\* From the default set, addPoint('red', (128,200)) gave
\* [(0,0), (128,200), (255,255)].
C5_Witness ==
  /\ lastCall.op = "addPoint"
  /\ lastCall.channel = "red"
  /\ lastCall.point = [x |-> 128, y |-> 200]
  /\ points.red = Diagonal
  /\ internalPoints.red =
       << [x |-> 0, y |-> 0], [x |-> 128, y |-> 200], [x |-> 255, y |-> 255] >>

\* C6: removePoint(channel, index) leaves the channel's point set unchanged
\* when index addresses the first or the last point in sorted order or the
\* channel holds only 2 points; for an interior index of a set of more than 2
\* points it removes exactly the point at that sorted index and keeps the
\* others in order, the first and the last among them.
C6_RemovePoint ==
  [][lastCall'.op = "removePoint"
     => LET old == sortPoints(points[lastCall'.channel])
            new == notified'.points[lastCall'.channel]
            k == lastCall'.index + 1
        IN IF Len(old) <= 2 \/ k = 1 \/ k = Len(old)
           THEN /\ internalPoints' = internalPoints
                /\ notified'.count = 0
           ELSE /\ notified'.count = 1
                /\ Uncontrolled => internalPoints' = notified'.points
                /\ Len(new) = Len(old) - 1
                /\ \A j \in 1..(k - 1) : new[j] = old[j]
                /\ \A j \in k..Len(new) : new[j] = old[j + 1]
                /\ new[1] = old[1]
                /\ new[Len(new)] = old[Len(old)]]_vars

\* removePoint addressed the last point of a set of more than 2 points and
\* changed nothing.
C6_Witness ==
  /\ lastCall.op = "removePoint"
  /\ Len(points[lastCall.channel]) > 2
  /\ lastCall.index = Len(points[lastCall.channel]) - 1
  /\ Uncontrolled
  /\ internalPoints = points
  /\ notified.count = 0

\* C7: resetChannel(c) sets channel c to exactly [(0,0),(255,255)] whatever
\* it held, and leaves the point sets of the other three channels as the call
\* read them.
C7_ResetChannel ==
  [][lastCall'.op = "resetChannel"
     => /\ notified'.count = 1
        /\ Uncontrolled => internalPoints' = notified'.points
        /\ notified'.points[lastCall'.channel] = Diagonal
        /\ \A d \in Channels \ {lastCall'.channel} :
             notified'.points[d] = points[d]]_vars

\* resetChannel replaced a channel that was not the diagonal and kept another
\* channel that is not the diagonal.
C7_Witness ==
  /\ lastCall.op = "resetChannel"
  /\ Uncontrolled
  /\ points[lastCall.channel] # Diagonal
  /\ internalPoints[lastCall.channel] = Diagonal
  /\ \E d \in Channels \ {lastCall.channel} :
       internalPoints[d] # Diagonal /\ internalPoints[d] = points[d]

\* C8: resetAll() sets all four channels to exactly [(0,0),(255,255)],
\* whatever the prior state and whatever defaultPoints the session was
\* constructed with.
C8_ResetAll ==
  [][lastCall'.op = "resetAll"
     => /\ notified'.count = 1
        /\ Uncontrolled => internalPoints' = notified'.points
        /\ \A c \in Channels : notified'.points[c] = Diagonal]_vars

\* resetAll on a session constructed with defaultPoints that are not the
\* diagonal.
C8_Witness ==
  /\ lastCall.op = "resetAll"
  /\ Uncontrolled
  /\ defaultPoints.given
  /\ \E c \in Channels : points[c] # Diagonal
  /\ \A c \in Channels : internalPoints[c] = Diagonal

\* y clamped into [0,255], spelled out.
ByteOf(v) == IF v < 0 THEN 0 ELSE IF v > 255 THEN 255 ELSE v

\* C9 (as claimed): updatePoint on the first point in sorted order stores
\* x = 0, on the last point in sorted order x = 255, whatever p.x is; only the
\* y of the stored point comes from p.
C9_EndPointsPinned ==
  [][lastCall'.op = "updatePoint"
     => LET k == lastCall'.index + 1
            new == notified'.points[lastCall'.channel]
        IN /\ k = 1 => new[k].x = 0
           /\ k = Len(points[lastCall'.channel]) => new[k].x = 255
           /\ k = 1 \/ k = Len(points[lastCall'.channel])
                => new[k].y = ByteOf(lastCall'.point.y)]_vars

\* C9 (amended): updatePoint on the first point in sorted order stores x = 0;
\* on the last point in sorted order of a set of at least 2 points it stores
\* x = 255; the only point of a one-point set counts as the first and gets
\* x = 0.  Only the y of the stored point comes from p.
C9_EndPointsPinnedFromTwo ==
  [][lastCall'.op = "updatePoint"
     => LET k == lastCall'.index + 1
            new == notified'.points[lastCall'.channel]
        IN /\ notified'.count = 1
           /\ Uncontrolled => internalPoints' = notified'.points
           /\ k = 1 => new[k].x = 0
           /\ k = Len(points[lastCall'.channel]) /\ k > 1 => new[k].x = 255
           /\ k = 1 \/ k = Len(points[lastCall'.channel])
                => new[k].y = ByteOf(lastCall'.point.y)]_vars

\* updatePoint on the last of at least 2 points, with another x, stored 255.
C9_Witness ==
  /\ lastCall.op = "updatePoint"
  /\ lastCall.index = Len(points[lastCall.channel]) - 1
  /\ lastCall.index >= 1
  /\ lastCall.point.x # 255
  /\ Uncontrolled
  /\ internalPoints[lastCall.channel][lastCall.index + 1].x = 255
  /\ internalPoints[lastCall.channel][lastCall.index + 1].y
       = ByteOf(lastCall.point.y)

Smaller(a, b) == IF a <= b THEN a ELSE b

Larger(a, b) == IF a >= b THEN a ELSE b

\* C10: updatePoint on an interior sorted index i stores
\* x = min(max(p.x, sorted[i-1].x + 5), sorted[i+1].x - 5), from the
\* neighbours' positions before the update, and y = clamp(p.y, 0, 255); on a
\* point set that satisfies the spacing invariant the updated point stays at
\* least 5 away from both neighbours and does not cross them.
C10_InteriorClamped ==
  [][lastCall'.op = "updatePoint"
       /\ lastCall'.index > 0
       /\ lastCall'.index < Len(points[lastCall'.channel]) - 1
     => LET old == sortPoints(points[lastCall'.channel])
            new == notified'.points[lastCall'.channel]
            k == lastCall'.index + 1
            lo == old[k - 1].x + 5
            hi == old[k + 1].x - 5
        IN /\ notified'.count = 1
           /\ Uncontrolled => internalPoints' = notified'.points
           /\ new[k].x = Smaller(Larger(lastCall'.point.x, lo), hi)
           /\ new[k].y = ByteOf(lastCall'.point.y)
           /\ Spaced(old)
                => /\ new[k].x - old[k - 1].x >= 5
                   /\ old[k + 1].x - new[k].x >= 5
                   /\ new[k - 1] = old[k - 1]
                   /\ new[k + 1] = old[k + 1]]_vars

\* updatePoint dragged an interior point of a spaced set beyond its left
\* neighbour and it was stored 5 to the right of that neighbour.
C10_Witness ==
  /\ lastCall.op = "updatePoint"
  /\ lastCall.index = 1
  /\ Len(points[lastCall.channel]) = 3
  /\ Spaced(points[lastCall.channel])
  /\ lastCall.point.x < points[lastCall.channel][1].x
  /\ Uncontrolled
  /\ internalPoints[lastCall.channel][2].x = points[lastCall.channel][1].x + 5
  /\ internalPoints[lastCall.channel][2].y = ByteOf(lastCall.point.y)

MutationOps ==
  {"addPoint", "removePoint", "updatePoint", "resetChannel", "resetAll",
   "setChannelPoints", "setAllPoints"}

\* The calls that are rejected on the ChannelSet pts: an addPoint within 5 of
\* an existing point, a removePoint on a set of at most 2 points or on its
\* first or last point.
Rejects(call, pts) ==
  \/ /\ call.op = "addPoint"
     /\ SomeWithin5(pts[call.channel], call.point.x)
  \/ /\ call.op = "removePoint"
     /\ \/ Len(pts[call.channel]) <= 2
        \/ call.index = 0
        \/ call.index = Len(pts[call.channel]) - 1

\* C11: every accepted mutation call (addPoint, removePoint, updatePoint,
\* resetChannel, resetAll, setChannelPoints, setAllPoints) invokes the change
\* listener exactly once within the call, with the complete new ChannelSet and
\* the LUTSet generateLUT makes of that same ChannelSet under the session's
\* interpolation; a rejected call does not invoke it.
C11_NotifiedExactlyOnce ==
  [][lastCall'.op \in MutationOps
     => IF Rejects(lastCall', points)
        THEN notified'.count = 0
        ELSE /\ notified'.count = 1
             /\ DOMAIN notified'.points = Channels
             /\ Uncontrolled => notified'.points = internalPoints'
             /\ notified'.lut.points = notified'.points
             /\ notified'.lut.interpolation = interpolation]_vars

\* An accepted addPoint in a catmullRom session notified the listener once
\* with the catmullRom LUTSet of the new ChannelSet.
C11_Witness ==
  /\ lastCall.op = "addPoint"
  /\ interpolation = "catmullRom"
  /\ notified.count = 1
  /\ Len(notified.points[lastCall.channel]) = Len(points[lastCall.channel]) + 1
  /\ notified.lut = [points |-> notified.points, interpolation |-> "catmullRom"]

\* C12: in uncontrolled mode an accepted mutation stores the new ChannelSet;
\* in controlled mode no step changes the internal store, the ChannelSet read
\* is the supplied one with the diagonal for each missing channel, and a
\* mutation is computed from that ChannelSet and reported to the listener
\* exactly when the same call is not one of the rejected calls.
C12_ControlledAndUncontrolled ==
  /\ [][/\ Uncontrolled /\ lastCall'.op \in MutationOps /\ notified'.count = 1
           => internalPoints' = notified'.points
        /\ ~Uncontrolled => internalPoints' = internalPoints
        /\ ~Uncontrolled /\ lastCall'.op \in MutationOps
           => LET old == points[lastCall'.channel]
                  new == notified'.points[lastCall'.channel]
              IN /\ notified'.count = 1 <=> ~Rejects(lastCall', points)
                 /\ notified'.count = 1 /\ lastCall'.op = "addPoint"
                      => Len(new) = Len(old) + 1
                 /\ notified'.count = 1 /\ lastCall'.op = "removePoint"
                      => Len(new) = Len(old) - 1
                 /\ lastCall'.op = "updatePoint" => Len(new) = Len(old)]_vars
  /\ [](~Uncontrolled
          => \A c \in Channels :
               points[c] = IF c \in DOMAIN controlledPoints.value
                           THEN controlledPoints.value[c] ELSE Diagonal)

\* A controlled session without a red channel reported an addPoint on red,
\* computed from the diagonal, and kept its internal store.
C12_Witness ==
  /\ ~Uncontrolled
  /\ "red" \notin DOMAIN controlledPoints.value
  /\ lastCall.op = "addPoint"
  /\ notified.count = 1
  /\ notified.points.red =
       << [x |-> 0, y |-> 0], [x |-> 128, y |-> 200], [x |-> 255, y |-> 255] >>
  /\ internalPoints # notified.points

ChannelOps ==
  {"addPoint", "removePoint", "updatePoint", "resetChannel", "setChannelPoints"}

\* C13: addPoint, removePoint, updatePoint, resetChannel and setChannelPoints
\* on channel c produce a ChannelSet whose other three channels hold the point
\* lists the call read, so the tables generateLUT makes for them come from the
\* same lists under the same interpolation.
C13_OtherChannelsUntouched ==
  [][lastCall'.op \in ChannelOps /\ notified'.count = 1
     => \A d \in Channels \ {lastCall'.channel} :
          /\ notified'.points[d] = points[d]
          /\ Uncontrolled => internalPoints'[d] = points[d]
          /\ notified'.lut.points[d] = points[d]
          /\ notified'.lut.interpolation = interpolation]_vars

\* setChannelPoints on one channel kept another channel's unsorted list.
C13_Witness ==
  /\ lastCall.op = "setChannelPoints"
  /\ Uncontrolled
  /\ notified.count = 1
  /\ \E d \in Channels \ {lastCall.channel} :
       /\ ~SortedByX(points[d])
       /\ internalPoints[d] = points[d]
       /\ notified.lut.points[d] = points[d]

\* The lists a and b hold the same points the same number of times.
SameElements(a, b) ==
  /\ Len(a) = Len(b)
  /\ \A i \in 1..Len(a) : Count(a, a[i]) = Count(b, a[i])

\* C14: setAllPoints(partial) replaces all four channels: a channel present
\* in partial becomes its supplied list sorted by ascending x, a channel
\* missing from partial becomes [(0,0),(255,255)] whatever it held; a channel
\* missing from defaultPoints at construction, or from the controlled points,
\* is the diagonal as well.
C14_SetAllPoints ==
  /\ [][lastCall'.op = "setAllPoints"
         => /\ notified'.count = 1
            /\ Uncontrolled => internalPoints' = notified'.points
            /\ \A c \in Channels :
                 IF c \in DOMAIN lastCall'.partial
                 THEN /\ SortedByX(notified'.points[c])
                      /\ SameElements(notified'.points[c], lastCall'.partial[c])
                 ELSE notified'.points[c] = Diagonal]_vars
  /\ [](lastCall.op = "init" /\ defaultPoints.given
          => \A c \in Channels :
               internalPoints[c] = IF c \in DOMAIN defaultPoints.value
                                   THEN defaultPoints.value[c] ELSE Diagonal)
  /\ [](controlledPoints.given
          => \A c \in Channels \ DOMAIN controlledPoints.value :
               points[c] = Diagonal)

\* setAllPoints without a green channel replaced a green list that was not
\* the diagonal by the diagonal, and stored red sorted.
C14_Witness ==
  /\ lastCall.op = "setAllPoints"
  /\ Uncontrolled
  /\ DOMAIN lastCall.partial = {"red", "blue"}
  /\ points.green # Diagonal
  /\ internalPoints.green = Diagonal
  /\ internalPoints.red =
       << [x |-> 0, y |-> 0], [x |-> 128, y |-> 50], [x |-> 255, y |-> 255] >>

DistinctX(s) ==
  \A i \in 1..Len(s) : \A j \in 1..Len(s) : i # j => s[i].x # s[j].x

InRangePoints(s) ==
  \A i \in 1..Len(s) : InByteRange(s[i].x) /\ InByteRange(s[i].y)

\* C15 (as claimed): for the two-point diagonal [(0,0),(255,255)],
\* generateChannelLUT produces table[i] = i for every i in 0..255, under the
\* monotone interpolation and under catmullRom.
C15_DiagonalIsIdentity ==
  curve = Diagonal => \A i \in 1..Len(table) : table[i] = i - 1

\* C16: for a point list with pairwise distinct integer x and integer
\* coordinates in [0,255], under either interpolation, the table at p.x holds
\* p.y for every control point p, and an interpolator called at p.x returns
\* p.y.
C16_ThroughControlPoints ==
  DistinctX(curve) /\ InRangePoints(curve)
    => \A i \in 1..Len(curve) :
         /\ curve[i].x < Len(table) => table[curve[i].x + 1] = curve[i].y
         /\ sample.called /\ sample.x = curve[i].x => sample.y = curve[i].y

\* The catmullRom table of [(0,0),(128,200),(255,255)] is complete and holds
\* 200 at 128.
C16_Witness ==
  /\ curve = << [x |-> 0, y |-> 0], [x |-> 128, y |-> 200],
                [x |-> 255, y |-> 255] >>
  /\ kind = "catmullRom"
  /\ Len(table) = 256
  /\ table[129] = 200

\* The smallest and the largest x of a non-empty point list.
LeastX(s) == CHOOSE v \in {s[i].x : i \in 1..Len(s)} :
               \A i \in 1..Len(s) : v <= s[i].x

GreatestX(s) == CHOOSE v \in {s[i].x : i \in 1..Len(s)} :
                  \A i \in 1..Len(s) : v >= s[i].x

\* C17: for a non-empty point list both interpolators return the y of a
\* point of least x for every x at or below the least x, and the y of a point
\* of greatest x for every x at or above the greatest x; the table entries at
\* and below the least x all equal the first entry, and those at and above
\* the greatest x all equal the entry at the greatest x.
C17_BoundaryFlat ==
  curve # << >>
    => LET lo == LeastX(curve)
           hi == GreatestX(curve)
       IN /\ sample.called /\ sample.x <= lo
               => \E i \in 1..Len(curve) :
                    curve[i].x = lo /\ sample.y = curve[i].y
          /\ sample.called /\ sample.x >= hi
               => \E i \in 1..Len(curve) :
                    curve[i].x = hi /\ sample.y = curve[i].y
          /\ \A i \in 1..Len(table) : i - 1 <= lo => table[i] = table[1]
          /\ \A i \in 1..Len(table) : i - 1 >= hi => table[i] = table[hi + 1]

\* catmullRom called at 300, beyond the last point of an unsorted list,
\* returned that point's y.
C17_Witness ==
  /\ curve = << [x |-> 255, y |-> 255], [x |-> 128, y |-> 50],
                [x |-> 0, y |-> 0] >>
  /\ kind = "catmullRom"
  /\ sample = [called |-> TRUE, x |-> 300, y |-> 255]

\* C18 (as claimed): for every point list with distinct x whose y does not
\* decrease as x grows, the table of the monotone interpolator does not
\* decrease: table[i] <= table[i+1] for all i in 0..254.
C18_MonotoneTable ==
  /\ kind = "monotone"
  /\ DistinctX(curve)
  /\ \A i \in 1..Len(curve) : \A j \in 1..Len(curve) :
       curve[i].x < curve[j].x => curve[i].y <= curve[j].y
  => \A i \in 1..(Len(table) - 1) : table[i] <= table[i + 1]

\* C19 (as claimed): for a point list that is sorted, spaced by at least 5,
\* inside [0,255] and running from x = 0 to x = 255, the monotone interpolator
\* called at an x between two adjacent control points (x0,y0) and (x1,y1)
\* returns a value in [min(y0,y1), max(y0,y1)].
C19_NoOvershoot ==
  /\ kind = "monotone"
  /\ sample.called
  /\ Len(curve) >= 2
  /\ SortedByX(curve) /\ Spaced(curve) /\ InRangePoints(curve)
  /\ curve[1].x = 0 /\ curve[Len(curve)].x = 255
  => \A i \in 1..(Len(curve) - 1) :
       curve[i].x <= sample.x /\ sample.x <= curve[i + 1].x
         => /\ sample.y >= Smaller(curve[i].y, curve[i + 1].y)
            /\ sample.y <= Larger(curve[i].y, curve[i + 1].y)

\* C20 (as claimed): for a point list of at least 1 point and any x both
\* interpolators return an integer in [0,255]; the table has at most 256
\* entries and each holds the interpolator's result for its index.
C20_ByteResults ==
  Len(curve) >= 1
    => /\ sample.called => InByteRange(sample.y)
       /\ Len(table) <= 256
       /\ table # << >> => table[Len(table)] = sample.y

\* C23: in the monotone interpolator a segment whose two control points
\* have the same y in [0,255] is flat: called at an x between them the
\* interpolator returns that y, whatever the neighbouring points are.
C23_FlatSegment ==
  kind = "monotone" /\ sample.called
    => LET sorted == sortPoints(curve)
       IN \A i \in 1..(Len(sorted) - 1) :
            /\ sorted[i].y = sorted[i + 1].y
            /\ InByteRange(sorted[i].y)
            /\ \/ sorted[i].x < sample.x /\ sample.x < sorted[i + 1].x
               \/ /\ DistinctX(curve)
                  /\ sorted[i].x <= sample.x /\ sample.x <= sorted[i + 1].x
            => sample.y = sorted[i].y

\* Between (100,80) and (150,80), with a falling segment on either side, the
\* monotone interpolator returned 80 at 125.
C23_Witness ==
  /\ curve = << [x |-> 0, y |-> 255], [x |-> 100, y |-> 80],
                [x |-> 150, y |-> 80], [x |-> 255, y |-> 0] >>
  /\ kind = "monotone"
  /\ sample = [called |-> TRUE, x |-> 125, y |-> 80]

\* C24: with an empty point list each interpolator returns the query x
\* unchanged and the table of generateChannelLUT is the identity; with a
\* single point each returns that point's y for every x and the table is
\* constant.
C24_DegenerateInput ==
  /\ curve = << >>
       => /\ sample.called => sample.y = sample.x
          /\ \A i \in 1..Len(table) : table[i] = i - 1
  /\ Len(curve) = 1
       => /\ sample.called => sample.y = curve[1].y
          /\ \A i \in 1..Len(table) : table[i] = ToUint8(curve[1].y)

\* catmullRom called at -9 on the empty list returned -9.
C24_Witness ==
  /\ curve = << >>
  /\ kind = "catmullRom"
  /\ sample = [called |-> TRUE, x |-> -9, y |-> -9]

\* C21: applyLUT(r, g, b, lut) returns master[red[r']], master[green[g']],
\* master[blue[b']] with r', g', b' the arguments clamped into [0,255]: the
\* channel's own table first and the master table second; a red table with
\* 10 -> 20 and a master table with 20 -> 235 give the red output 235; the
\* identity LUTSet returns in-range arguments as they are; every output is in
\* [0,255].
C21_ChannelThenMaster ==
  pixel.called
    => /\ pixel.out[1] = lutData.master[lutData.red[ByteOf(pixel.r) + 1] + 1]
       /\ pixel.out[2] = lutData.master[lutData.green[ByteOf(pixel.g) + 1] + 1]
       /\ pixel.out[3] = lutData.master[lutData.blue[ByteOf(pixel.b) + 1] + 1]
       /\ \A k \in 1..3 : InByteRange(pixel.out[k])
       /\ lutData.red[11] = 20 /\ lutData.master[21] = 235 /\ pixel.r = 10
            => pixel.out[1] = 235
       /\ lutData.master = IdentityTable /\ lutData.red = IdentityTable
            /\ InByteRange(pixel.r)
            => pixel.out[1] = pixel.r

\* With a doubling red table and an inverting master table,
\* applyLUT(10, 300, -3, lut) returned 235 for red.
C21_Witness ==
  /\ lutData.red = DoubleTable
  /\ lutData.master = InvertTable
  /\ pixel.called
  /\ pixel.r = 10 /\ pixel.g = 300 /\ pixel.b = -3
  /\ pixel.out[1] = 235

\* The events whose handlers look at `disabled`.
GuardedEvents == {"mousedown", "mousemove", "dblclick", "click"}

\* C22: while disabled is true no mousedown, mousemove or double-click on
\* the canvas invokes onAddPoint, onUpdatePoint or onRemovePoint and no tab
\* click invokes the channel-change callback: the event leaves the stored
\* ChannelSet, the listener and the active channel alone.
C22_DisabledIgnoresGestures ==
  [][disabled /\ gesture'.event \in GuardedEvents
     => /\ gesture'.callback = "none"
        /\ internalPoints' = internalPoints
        /\ nCalls' = nCalls
        /\ notified' = notified
        /\ internalChannel' = internalChannel
        /\ controlledChannel' = controlledChannel]_vars

\* The component was disabled during a drag and the next mousemove invoked
\* nothing.
C22_Witness ==
  /\ disabled
  /\ isDragging
  /\ rendered.activePointIndex # Null
  /\ gesture.event = "mousemove"
  /\ gesture.callback = "none"

\* Some point of the list is within POINT_HIT_THRESHOLD pixels of the
\* position: the squared distance, both sides taken times 255 * 255.
SomePointAt(s, position) ==
  \E i \in 1..Len(s) :
    LET dx == 255 * position[1] - 300 * s[i].x
        dy == 255 * position[2] - 300 * (255 - s[i].y)
    IN dx < 4000 /\ dx > -4000 /\ dy < 4000 /\ dy > -4000
       /\ dx * dx + dy * dy <= 144 * 255 * 255

\* C30: onUpdatePoint is invoked only by a mousemove that comes after a
\* mousedown on a control point with no mouseup, mouseleave or window
\* mouseup in between; on an enabled canvas a mousedown at a place with no
\* control point invokes onAddPoint once and starts no drag; after mouseup,
\* mouseleave and window mouseup the dragging flag is false and the active
\* point index is null.
C30_DragProtocol ==
  [][/\ gesture'.callback = "onUpdatePoint"
          => gesture'.event = "mousemove" /\ gesture.pressed
     /\ (/\ gesture'.event = "mousedown"
         /\ ~disabled
         /\ ~SomePointAt(points[rendered.channel], gesture'.position))
          => /\ gesture'.callback = "onAddPoint"
             /\ lastCall'.op = "addPoint"
             /\ nCalls' = nCalls + 1
             /\ isDragging' = isDragging
             /\ activePointIndex' = activePointIndex
     /\ gesture'.event \in {"mouseup", "window mouseup", "mouseleave"}
          => ~isDragging' /\ activePointIndex' = Null]_vars

\* A drag of the point added in the middle: the mousemove after the
\* mousedown on it and a render invoked onUpdatePoint, which stored the point
\* at (51,51).
C30_Witness ==
  /\ gesture.event = "mousemove"
  /\ gesture.callback = "onUpdatePoint"
  /\ gesture.pressed
  /\ isDragging
  /\ lastCall.op = "updatePoint"
  /\ lastCall.index = 1
  /\ internalPoints[lastCall.channel][2] = [x |-> 51, y |-> 51]

\* The points of s with the x-coordinate x, in the order s has them.
WithX(s, x) == SelectSeq(s, LAMBDA p : p.x = x)

\* r is the stable ascending-x sort of l: ascending, as long as l, and the
\* points of each x in the order l has them.
StableSortOf(r, l) ==
  /\ SortedByX(r)
  /\ Len(r) = Len(l)
  /\ \A i \in 1..Len(l) : WithX(r, l[i].x) = WithX(l, l[i].x)

\* C26: setChannelPoints(channel, list) and setAllPoints hand on, and in
\* uncontrolled mode store, for each supplied channel exactly the stable
\* ascending-x sort of the supplied list: the same points as often, none
\* dropped, clamped, re-spaced or moved to x = 0 or 255; the supplied list
\* itself is as it was.
C26_StoresStableSort ==
  [][lastCall'.op \in {"setChannelPoints", "setAllPoints"}
       => /\ notified'.count = 1
          /\ Uncontrolled => internalPoints' = notified'.points
          /\ lastCall'.op = "setChannelPoints"
               => /\ StableSortOf(notified'.points[lastCall'.channel],
                                  lastCall'.list)
                  /\ lastCall'.after.list = lastCall'.list
          /\ lastCall'.op = "setAllPoints"
               => \A c \in DOMAIN lastCall'.partial :
                    /\ StableSortOf(notified'.points[c], lastCall'.partial[c])
                    /\ lastCall'.after.partial[c] = lastCall'.partial[c]]_vars

\* setChannelPoints has stored a crowded, unsorted list with two points at
\* x = 128 and one with y = 0 at x = 126: sorted, the two in their order.
C26_Witness ==
  /\ lastCall.op = "setChannelPoints"
  /\ Uncontrolled
  /\ lastCall.list =
       << [x |-> 128, y |-> 200], [x |-> 128, y |-> 50], [x |-> 126, y |-> 0] >>
  /\ lastCall.after.list = lastCall.list
  /\ internalPoints[lastCall.channel] =
       << [x |-> 126, y |-> 0], [x |-> 128, y |-> 200], [x |-> 128, y |-> 50] >>

\* The read accessors of the component's ref.
getLUT == lut

getPoints == points

\* C25: in every reachable state the LUTSet getLUT returns is generateLUT of
\* the ChannelSet getPoints returns, with the interpolation of the component
\* for all four channels; it is never the LUTSet of earlier points or of an
\* earlier interpolation.
C25_LutNeverStale ==
  getLUT = LutOf(getPoints, interpolation)

\* After a mutation, a render, a change of the interpolation prop and another
\* mutation with its render, the accessors return the new points and their
\* LUTSet under the new interpolation.
C25_Witness ==
  /\ lastCall.op = "render"
  /\ nCalls >= 2
  /\ Uncontrolled
  /\ getPoints = internalPoints
  /\ getPoints # initialPoints(defaultPoints)
  /\ getLUT.points = getPoints
  /\ getLUT.interpolation = "catmullRom"

\* C27 (as claimed): in uncontrolled mode a mutation is computed from the
\* ChannelSet the preceding mutation produced, also when no render came
\* between the two calls: an accepted call on one channel leaves the stored
\* lists of the other channels as the preceding call stored them, so after
\* resetChannel('red') and resetChannel('green') both resets are there.
C27_NoLostMutation ==
  [][(/\ Uncontrolled
      /\ lastCall'.op \in ChannelOps
      /\ notified'.count = 1)
       => \A c \in Channels \ {lastCall'.channel} :
            internalPoints'[c] = internalPoints[c]]_vars

\* The point-set invariants: integer points in [0,255], sorted by ascending
\* x, at least 2 of them, adjacent ones at least 5 apart in x.
SatisfiesInvariants(s) ==
  /\ InRangePoints(s)
  /\ SortedByX(s)
  /\ Len(s) >= 2
  /\ Spaced(s)

\* C28: updatePoint(channel, i, p) with the index i of an existing point on a
\* point set that satisfies the invariants keeps the number of points, leaves
\* every point but the one at index i as it was, and leaves the updated point
\* at sorted index i; the new set satisfies the invariants again, so the
\* index of an ongoing drag addresses the same point in the next call.
C28_DragKeepsIndex ==
  [][(/\ lastCall'.op = "updatePoint"
      /\ SatisfiesInvariants(points[lastCall'.channel]))
       => LET old == points[lastCall'.channel]
              new == notified'.points[lastCall'.channel]
              k == lastCall'.index + 1
          IN /\ notified'.count = 1
             /\ Uncontrolled => internalPoints' = notified'.points
             /\ Len(new) = Len(old)
             /\ \A j \in 1..Len(old) : j # k => new[j] = old[j]
             /\ \A j \in 1..Len(new) :
                  /\ j < k => new[j].x < new[k].x
                  /\ j > k => new[j].x > new[k].x
             /\ SatisfiesInvariants(new)]_vars

\* updatePoint dragged the middle one of three points beyond the last point:
\* it was stored 5 to the left of the last point, still the middle one, with
\* both ends as they were.
C28_Witness ==
  /\ lastCall.op = "updatePoint"
  /\ lastCall.index = 1
  /\ lastCall.point.x = 300
  /\ Uncontrolled
  /\ Len(points[lastCall.channel]) = 3
  /\ SatisfiesInvariants(points[lastCall.channel])
  /\ Len(internalPoints[lastCall.channel]) = 3
  /\ internalPoints[lastCall.channel][1] = points[lastCall.channel][1]
  /\ internalPoints[lastCall.channel][2].x = 250
  /\ internalPoints[lastCall.channel][3] = points[lastCall.channel][3]

\* C29 (as claimed): removePoint(channel, index) with an index that addresses
\* no point of the channel, negative or at least the number of points, is a
\* silent no-op: nothing is handed to the change listener and the stored
\* ChannelSet is as it was.
C29_MissingIndexIsNoOp ==
  [][(/\ lastCall'.op = "removePoint"
      /\ \/ lastCall'.index < 0
         \/ lastCall'.index >= Len(points[lastCall'.channel]))
       => /\ notified'.count = 0
          /\ internalPoints' = internalPoints]_vars

=============================================================================
